---- MODULE Spec2Model ----
(***************************************************************************)
(* Lottery history: the Fetcher/Parser (update_jackpots.py) that scrapes   *)
(* two result pages and overwrites history.json, and the Query Server      *)
(* (api.py) that re-reads history.json on every request.                   *)
(*                                                                         *)
(* Text is a sequence of characters, each character a one-element string;  *)
(* "sup2" stands for the single code point U+00B2 (superscript two), for   *)
(* which str.isdigit() is True and int() raises ValueError.                *)
(* A date label is the list of its whitespace-separated tokens, which is   *)
(* what get_text(" ", strip=True).split() yields; a token is a sequence of *)
(* lexemes, a maximal digit run [num |-> n] or a letter run [txt |-> s].   *)
(***************************************************************************)
EXTENDS Integers, Sequences, FiniteSets, TLC

VARIABLES
    page,       \* parse_draw_rows: the <tr> rows of the page, in document order
    cursor,     \* parse_draw_rows: number of rows the for loop has consumed
    results,    \* parse_draw_rows: the local list `results`
    ppc,        \* parse_draw_rows: "idle", "loop", "returned" or "raised"
    fpc,        \* main: position of the Fetcher process
    now,        \* the wall clock, in seconds after the first snapshot
    fetched,    \* main: what fetch_html returned for each game in this run
    powerball_history,      \* main: local
    megamillions_history,   \* main: local
    output,     \* main: local dict `output`
    written,    \* the output of the last run whose write was closed
    writing,    \* history.json was opened for writing and not closed since
    file,       \* history.json: the JSON text on disk, as a token sequence
    request,    \* the last request the Query Server handled
    response    \* the response it gave

pvars == <<page, cursor, results, ppc>>
fvars == <<fpc, now, fetched, powerball_history, megamillions_history, output,
           written, writing>>
avars == <<request, response>>
vars  == <<pvars, fvars, file, avars>>

-----------------------------------------------------------------------------
(* Bounds *)

MaxRows == 2

\* Fetcher runs after the snapshot the system starts with
MaxRuns == 1

-----------------------------------------------------------------------------
(* Text helpers: str.strip, str.replace, str.isdigit, int *)

Whitespace == {" "}

DecimalValue ==
    ("0" :> 0) @@ ("1" :> 1) @@ ("2" :> 2) @@ ("3" :> 3) @@ ("4" :> 4) @@
    ("5" :> 5) @@ ("6" :> 6) @@ ("7" :> 7) @@ ("8" :> 8) @@ ("9" :> 9)

\* Characters with Numeric_Type=Digit that are not decimal digits.
NonDecimalDigits == {"sup2"}

RECURSIVE lstrip(_)
lstrip(s) ==
    IF s # <<>> /\ Head(s) \in Whitespace THEN lstrip(Tail(s)) ELSE s

RECURSIVE rstrip(_)
rstrip(s) ==
    IF s # <<>> /\ s[Len(s)] \in Whitespace
    THEN rstrip(SubSeq(s, 1, Len(s) - 1))
    ELSE s

strip(s) == rstrip(lstrip(s))

\* s.replace(c, "") for a one-character c
remove(s, c) == SelectSeq(s, LAMBDA ch : ch # c)

isdigit(s) ==
    /\ Len(s) > 0
    /\ \A k \in 1..Len(s) : s[k] \in (DOMAIN DecimalValue) \cup NonDecimalDigits

RECURSIVE DecimalNumber(_)
DecimalNumber(s) ==
    IF s = <<>> THEN 0
    ELSE 10 * DecimalNumber(SubSeq(s, 1, Len(s) - 1)) + DecimalValue[s[Len(s)]]

\* int(s): ValueError unless every character is a decimal digit
int(s) ==
    IF Len(s) > 0 /\ \A k \in 1..Len(s) : s[k] \in DOMAIN DecimalValue
    THEN [ok |-> TRUE, value |-> DecimalNumber(s)]
    ELSE [ok |-> FALSE, value |-> 0]

-----------------------------------------------------------------------------
(* Dates: re.sub of the ordinal suffix, datetime.strptime, date.isoformat *)

CUTOFF_DATE == [year |-> 2025, month |-> 1, day |-> 1]

MonthNames ==
    <<"January", "February", "March", "April", "May", "June", "July",
      "August", "September", "October", "November", "December">>

IsNum(lx) == "num" \in DOMAIN lx
IsTxt(lx) == "txt" \in DOMAIN lx

OrdinalSuffixes == {"st", "nd", "rd", "th"}

\* re.sub(r"(\d+)(st|nd|rd|th)", r"\1", ...) on one token: a suffix lexeme
\* that directly follows a digit run is removed.
RECURSIVE StripOrdinal(_)
StripOrdinal(tok) ==
    IF Len(tok) < 2 THEN tok
    ELSE IF IsNum(tok[1]) /\ IsTxt(tok[2]) /\ tok[2].txt \in OrdinalSuffixes
         THEN <<tok[1]>> \o StripOrdinal(SubSeq(tok, 3, Len(tok)))
         ELSE <<tok[1]>> \o StripOrdinal(Tail(tok))

IsLeap(y) == (y % 4 = 0 /\ y % 100 # 0) \/ y % 400 = 0

DaysInMonth(y, m) ==
    IF m = 2 THEN (IF IsLeap(y) THEN 29 ELSE 28)
    ELSE IF m \in {4, 6, 9, 11} THEN 30 ELSE 31

\* datetime.strptime(date_part, "%B %d %Y").date(): ValueError unless the
\* tokens are exactly a full month name, a day and a four-digit year that
\* form a calendar date.
\* (strptime matches month names without regard to case; the pages
\* modelled here spell them as the source site does.)
strptime(toks) ==
    IF /\ Len(toks) = 3
       /\ Len(toks[1]) = 1 /\ IsTxt(toks[1][1])
       /\ \E m \in 1..12 : MonthNames[m] = toks[1][1].txt
       /\ Len(toks[2]) = 1 /\ IsNum(toks[2][1])
       /\ toks[2][1].num \in 1..31
       /\ Len(toks[3]) = 1 /\ IsNum(toks[3][1])
       /\ toks[3][1].num \in 1000..9999
    THEN LET m == CHOOSE m \in 1..12 : MonthNames[m] = toks[1][1].txt
             d == toks[2][1].num
             y == toks[3][1].num
         IN  IF d <= DaysInMonth(y, m)
             THEN [ok |-> TRUE, date |-> [year |-> y, month |-> m, day |-> d]]
             ELSE [ok |-> FALSE, date |-> CUTOFF_DATE]
    ELSE [ok |-> FALSE, date |-> CUTOFF_DATE]

\* date.__lt__
DateLess(a, b) ==
    \/ a.year < b.year
    \/ a.year = b.year /\ a.month < b.month
    \/ a.year = b.year /\ a.month = b.month /\ a.day < b.day

Pad2(n) == IF n < 10 THEN "0" \o ToString(n) ELSE ToString(n)

\* date.isoformat(): "YYYY-MM-DD"
isoformat(d) == ToString(d.year) \o "-" \o Pad2(d.month) \o "-" \o Pad2(d.day)

-----------------------------------------------------------------------------
(* parse_draw_rows *)

\* tag.find(name): the first matching descendant, None (here <<>>) if none
find(elems) == IF elems = <<>> THEN <<>> ELSE <<Head(elems)>>

\* class_=re.compile(r"\bresultBall\b")
IsResultBall(span) == "resultBall" \in span.class

\* The comparison turned round: `if draw_date > CUTOFF_DATE: continue`
BeforeCutoffInverted(draw_date) == DateLess(CUTOFF_DATE, draw_date)

\* if draw_date < CUTOFF_DATE: continue
BeforeCutoff(draw_date) == DateLess(draw_date, CUTOFF_DATE)

\* The texts of the numbers cell that pass txt.isdigit(), in document order.
NumericTexts(numbers_td) ==
    LET number_spans == SelectSeq(numbers_td.spans, IsResultBall)
        txts == [k \in 1..Len(number_spans) |-> strip(number_spans[k].text)]
    IN  SelectSeq(txts, isdigit)

\* jackpot_text.replace("$", "").replace(",", "")
JackpotDigits(strong) == remove(remove(strip(strong), "$"), ",")

Continue == [kind |-> "continue"]
Raise    == [kind |-> "raise"]
Emit(r)  == [kind |-> "append", record |-> r]

\* One pass through the body of `for tr in soup.find_all("tr")`.
RowOutcome(tr) ==
    LET tds == tr.tds IN
    IF Len(tds) < 3 THEN Continue ELSE
    LET a_tag == find(tds[1].a) IN
    IF a_tag = <<>> \/ a_tag[1] = <<>> THEN Continue ELSE
    LET parts == a_tag[1] IN
    IF Len(parts) < 3 THEN Continue ELSE
    LET date_part == [k \in 1..(Len(parts) - 1) |-> StripOrdinal(parts[k + 1])]
        parsed == strptime(date_part)
    IN
    IF ~parsed.ok THEN Continue ELSE
    IF BeforeCutoff(parsed.date) THEN Continue ELSE
    LET txts == NumericTexts(tds[2]) IN
    IF \E k \in 1..Len(txts) : ~int(txts[k]).ok THEN Raise ELSE
    LET numbers == [k \in 1..Len(txts) |-> int(txts[k]).value] IN
    IF numbers = <<>> THEN Continue ELSE
    LET strong == find(tds[3].strong) IN
    IF strong = <<>> THEN Continue ELSE
    LET jackpot_digits == JackpotDigits(strong[1]) IN
    IF ~isdigit(jackpot_digits) THEN Continue ELSE
    IF ~int(jackpot_digits).ok THEN Raise ELSE
    Emit([date    |-> isoformat(parsed.date),
          numbers |-> numbers,
          jackpot |-> int(jackpot_digits).value])

\* An append that keeps one draw per date
append_unless_same_date(list, record) ==
    IF \E k \in 1..Len(list) : list[k].date = record.date THEN list
    ELSE Append(list, record)

\* results.append({...})
append(list, record) == Append(list, record)

\* parse_draw_rows as a function of the page: the list it returns, or the
\* exception that leaves it.
RECURSIVE ParseFrom(_, _)
ParseFrom(rows, acc) ==
    IF rows = <<>> THEN [raised |-> FALSE, results |-> acc]
    ELSE LET o == RowOutcome(Head(rows)) IN
         IF o.kind = "raise" THEN [raised |-> TRUE, results |-> <<>>]
         ELSE IF o.kind = "append"
              THEN ParseFrom(Tail(rows), append(acc, o.record))
              ELSE ParseFrom(Tail(rows), acc)

parse_draw_rows(html) == ParseFrom(html, <<>>)

-----------------------------------------------------------------------------
(* Input pages *)

Word(s)       == <<[txt |-> s]>>
Number(n)     == <<[num |-> n]>>
Ordinal(n, s) == <<[num |-> n], [txt |-> s]>>

Ball(t)   == [class |-> {"resultBall", "ball"}, text |-> t]
Other(t)  == [class |-> {"label"}, text |-> t]

\* Labels that parse to a date on or after the cutoff.
GoodLabels ==
    { <<Word("Friday"), Word("May"), Ordinal(30, "th"), Number(2025)>>,
      <<Word("Wednesday"), Word("January"), Ordinal(1, "st"), Number(2025)>> }

\* First cells that make the row a non-draw row, or a draw before the cutoff.
BadDateCells ==
    { <<>>,                                            \* no <a>
      << <<>> >>,                                      \* <a> with blank text
      << <<Word("Draw"), Word("Date")>> >>,            \* fewer than 3 tokens
      << <<Word("May"), Ordinal(30, "th"), Number(2025)>> >>,      \* no weekday
      << <<Word("Friday"), Word("Foo"), Ordinal(3, "rd"), Number(2025)>> >>,
      << <<Word("Sunday"), Word("February"), Ordinal(30, "th"), Number(2025)>> >>,
      << <<Word("Tuesday"), Word("December"), Ordinal(31, "st"), Number(2024)>> >> }

BallCells ==
    { <<Ball(<<"1", "2">>), Ball(<<"7">>)>>,
      <<Ball(<<" ", "7">>), Other(<<"9">>), Ball(<<"x">>), Ball(<<"3">>)>>,
      <<Ball(<<"x">>)>>,
      <<>>,
      <<Ball(<<"7">>), Ball(<<"sup2">>)>> }

StrongCells ==
    { << <<"$", "1", ",", "0", "0", "0">> >>,
      << <<"$", "1", ",", "0", "0", "X">> >>,
      << <<"$", "sup2">> >>,
      <<>> }

Cell(a, spans, strong) == [a |-> a, spans |-> spans, strong |-> strong]

Row(a, spans, strong) ==
    [tds |-> <<Cell(a, <<>>, <<>>), Cell(<<>>, spans, <<>>), Cell(<<>>, <<>>, strong)>>]

ValidBalls  == <<Ball(<<"1", "2">>), Ball(<<"7">>)>>
ValidStrong == << <<"$", "1", ",", "0", "0", "0">> >>

Rows ==
    { [tds |-> <<Cell(<<>>, <<>>, <<>>), Cell(<<>>, <<>>, <<>>)>>] }
    \cup { Row(a, ValidBalls, ValidStrong) : a \in BadDateCells }
    \cup { Row(<<l>>, b, s) : l \in GoodLabels, b \in BallCells, s \in StrongCells }

Pages == UNION { [1..n -> Rows] : n \in 0..MaxRows }

-----------------------------------------------------------------------------
(* JSON values and the text of history.json *)

JStr(s)      == [type |-> "str", s |-> s]
JList(items) == [type |-> "list", items |-> items]

K_timestamp    == <<"t", "i", "m", "e", "s", "t", "a", "m", "p">>
K_powerball    == <<"p", "o", "w", "e", "r", "b", "a", "l", "l">>
K_megaMillions == <<"m", "e", "g", "a", "M", "i", "l", "l", "i", "o", "n", "s">>

\* The dict main builds, keys in insertion order
Snapshot(ts, pb, mm) ==
    (K_timestamp :> JStr(ts)) @@ (K_powerball :> JList(pb)) @@ (K_megaMillions :> JList(mm))

KeyOrder == <<K_timestamp, K_powerball, K_megaMillions>>

OpenBrace  == [tok |-> "{"]
CloseBrace == [tok |-> "}"]

\* json.dump(output, f, indent=2): the chunks written, in order
json_dump(obj) ==
    <<OpenBrace>>
    \o [k \in 1..Len(KeyOrder) |-> [key |-> KeyOrder[k], value |-> obj[KeyOrder[k]]]]
    \o <<CloseBrace>>

\* json.load(f): JSONDecodeError unless the text is one complete object
json_load(text) ==
    IF /\ Len(text) >= 2
       /\ text[1] = OpenBrace
       /\ text[Len(text)] = CloseBrace
       /\ \A k \in 2..(Len(text) - 1) : "key" \in DOMAIN text[k]
    THEN [ok |-> TRUE,
          value |-> [key \in {text[k].key : k \in 2..(Len(text) - 1)} |->
                       LET last == CHOOSE k \in 2..(Len(text) - 1) :
                                       /\ text[k].key = key
                                       /\ \A j \in (k + 1)..(Len(text) - 1) : text[j].key # key
                       IN  text[last].value]]
    ELSE [ok |-> FALSE, value |-> <<>>]

\* datetime.now(timezone.utc).replace(microsecond=0).isoformat() at second t
TimestampAt(t) == "2025-06-03T14:00:0" \o ToString(t) \o "+00:00"

\* The file the system starts with: the docstring's example
InitialSnapshot ==
    Snapshot(TimestampAt(0),
             <<[date |-> "2025-01-03", numbers |-> <<1, 7, 22, 34, 56, 18>>, jackpot |-> 71000000]>>,
             <<[date |-> "2025-01-07", numbers |-> <<4, 14, 35, 49, 62, 6>>, jackpot |-> 20000000]>>)

\* A snapshot loaded once, when the module is imported
load_history_cached(f) == [ok |-> TRUE, value |-> InitialSnapshot]

\* load_history()
load_history(f) == json_load(f)

-----------------------------------------------------------------------------
(* api.py: get_lottery and read_root *)

\* Optional[str]: <<>> is None, <<s>> is the string s.  A game is a character
\* sequence, a date is a string.
None == <<>>

\* The test narrowed to `if game is None`
GameGivenUnlessNone(game) == game # None

\* `if not game`
GameGiven(game) == game # None /\ game[1] # <<>>

\* `if date`
DateGiven(date) == date # None /\ date[1] # ""

\* A lookup that treats an empty value as missing: `if not history.get(key)`
HasKeyNonEmpty(history, key) ==
    /\ key \in DOMAIN history
    /\ history[key] \notin {JStr(""), JList(<<>>)}

\* `key not in history`, negated
HasKey(history, key) == key \in DOMAIN history

\* [e for e in entries if e.get("date") == date]
Filtered(entries, date) == SelectSeq(entries, LAMBDA e : e.date = date)

Ok(body)          == [status |-> 200, body |-> body]
NotFound(detail)  == [status |-> 404, detail |-> detail]
ServerError(exc)  == [status |-> 500, detail |-> [exception |-> exc]]

WholeHistory(h) == [kind |-> "history", history |-> h]
Value(v)        == [kind |-> "value", value |-> v]

GameNotFound(game)        == [fmt |-> "Game '{game}' not found", game |-> game]
NoDrawsFound(key, date)   == [fmt |-> "No {key} draws found on {date}", key |-> key, date |-> date]

get_lottery(loaded, game, date) ==
    IF ~loaded.ok THEN ServerError("JSONDecodeError") ELSE
    LET history == loaded.value IN
    IF ~GameGiven(game) THEN Ok(WholeHistory(history)) ELSE
    LET key == strip(game[1]) IN
    IF ~HasKey(history, key) THEN NotFound(GameNotFound(game[1])) ELSE
    LET entries == history[key] IN
    IF DateGiven(date)
    THEN IF entries.type = "str"
         \* iterating a str yields one-character strs, which have no .get
         THEN IF entries.s = "" THEN NotFound(NoDrawsFound(key, date[1]))
              ELSE ServerError("AttributeError")
         ELSE LET filtered == Filtered(entries.items, date[1]) IN
              IF filtered = <<>> THEN NotFound(NoDrawsFound(key, date[1]))
              ELSE Ok(Value(JList(filtered)))
    ELSE Ok(Value(entries))

Welcome == [message |-> "Welcome to the Lottery History API"]

Padded(t) == <<" ">> \o t \o <<" ">>

GameInputs ==
    { None, << <<>> >>, <<K_powerball>>, <<K_megaMillions>>, <<K_timestamp>>,
      <<Padded(K_powerball)>>, << <<" ">> >>,
      << <<"u", "n", "k", "n", "o", "w", "n", "G", "a", "m", "e">> >> }

DateInputs ==
    { None, <<"">>, <<"2025-05-30">>, <<"2025-5-30">>, <<"2099-01-01">> }

-----------------------------------------------------------------------------
(* Idle values of the three parts *)

ParserIdle ==
    /\ page = <<>> /\ cursor = 0 /\ results = <<>> /\ ppc = "idle"

\* Nothing fetched yet in this run
NoFetch == [powerball |-> <<"unfetched">>, megaMillions |-> <<"unfetched">>]

FetcherIdle ==
    /\ fpc = "idle" /\ now = 0 /\ fetched = NoFetch
    /\ powerball_history = <<>> /\ megamillions_history = <<>>
    /\ output = InitialSnapshot /\ written = InitialSnapshot
    /\ writing = FALSE

NoRequest  == [path |-> "none"]
NoResponse == [status |-> 0]

ServerIdle == request = NoRequest /\ response = NoResponse

-----------------------------------------------------------------------------
(* The parser run row by row *)

ParseInit ==
    /\ page \in Pages
    /\ cursor = 0
    /\ results = <<>>
    /\ ppc = "loop"
    /\ FetcherIdle /\ ServerIdle
    /\ file = json_dump(InitialSnapshot)

SkipRow ==
    /\ ppc = "loop" /\ cursor < Len(page)
    /\ RowOutcome(page[cursor + 1]).kind = "continue"
    /\ cursor' = cursor + 1
    /\ UNCHANGED <<page, results, ppc, fvars, file, avars>>

AppendRow ==
    /\ ppc = "loop" /\ cursor < Len(page)
    /\ RowOutcome(page[cursor + 1]).kind = "append"
    /\ results' = append(results, RowOutcome(page[cursor + 1]).record)
    /\ cursor' = cursor + 1
    /\ UNCHANGED <<page, ppc, fvars, file, avars>>

\* int() raises ValueError, which nothing in parse_draw_rows catches
RaiseRow ==
    /\ ppc = "loop" /\ cursor < Len(page)
    /\ RowOutcome(page[cursor + 1]).kind = "raise"
    /\ ppc' = "raised"
    /\ UNCHANGED <<page, cursor, results, fvars, file, avars>>

Return ==
    /\ ppc = "loop" /\ cursor = Len(page)
    /\ ppc' = "returned"
    /\ UNCHANGED <<page, cursor, results, fvars, file, avars>>

ParseNext == SkipRow \/ AppendRow \/ RaiseRow \/ Return

ParseSpec == ParseInit /\ [][ParseNext]_vars

-----------------------------------------------------------------------------
(* The Query Server *)

GetLottery ==
    \E game \in GameInputs, date \in DateInputs :
        /\ request' = [path |-> "/lottery", game |-> game, date |-> date]
        /\ response' = get_lottery(load_history(file), game, date)
        /\ UNCHANGED <<pvars, fvars, file>>

ReadRoot ==
    /\ request' = [path |-> "/"]
    /\ response' = Ok(Welcome)
    /\ UNCHANGED <<pvars, fvars, file>>

-----------------------------------------------------------------------------
(* The Query Server over a fixed history.json *)

D1 == [date |-> "2025-05-30", numbers |-> <<12, 7>>, jackpot |-> 1000]
D2 == [date |-> "2025-05-30", numbers |-> <<7, 3>>, jackpot |-> 1000]
D3 == [date |-> "2025-01-01", numbers |-> <<12, 7>>, jackpot |-> 1000]

DrawLists == { <<>>, <<D1>>, <<D3, D1>>, <<D1, D3, D2>> }

Snapshots == { Snapshot(TimestampAt(0), pb, mm) : pb \in DrawLists, mm \in DrawLists }

Prefixes(text) == { SubSeq(text, 1, n) : n \in 0..Len(text) }

ApiInit ==
    /\ file \in UNION { Prefixes(json_dump(s)) : s \in Snapshots }
    /\ ParserIdle /\ FetcherIdle /\ ServerIdle

ApiNext == GetLottery \/ ReadRoot

ApiSpec == ApiInit /\ [][ApiNext]_vars

-----------------------------------------------------------------------------
(* update_jackpots.py: main, one step per statement *)

LabelMay30 == <<Word("Friday"), Word("May"), Ordinal(30, "th"), Number(2025)>>

\* What the two source pages may hold when a run fetches them
SourcePages ==
    { <<Row(<<LabelMay30>>, ValidBalls, ValidStrong),
        Row(<<LabelMay30>>, <<Ball(<<"3">>)>>, ValidStrong)>>,
      <<Row(<<LabelMay30>>, <<Ball(<<"7">>), Ball(<<"sup2">>)>>, ValidStrong)>> }

\* fetch_html(url): the page text, or None after any requests exception
FetchResults == {None} \cup { <<p>> : p \in SourcePages }

\* fetch_lottery_history(url), given what fetch_html returned
fetch_lottery_history(html) ==
    IF html = None THEN [raised |-> FALSE, results |-> <<>>]
    ELSE parse_draw_rows(html[1])

Running == {"fetch_powerball", "fetch_megamillions", "build", "open", "dump"}

\* The external scheduler starts a run
StartRun ==
    /\ fpc \notin Running
    /\ now < MaxRuns
    /\ now' = now + 1
    /\ fpc' = "fetch_powerball"
    /\ fetched' = NoFetch
    /\ powerball_history' = <<>>
    /\ megamillions_history' = <<>>
    /\ UNCHANGED <<output, written, writing, pvars, file, avars>>

\* powerball_history = fetch_lottery_history(POWERBALL_URL)
FetchPowerball ==
    /\ fpc = "fetch_powerball"
    /\ \E html \in FetchResults :
         LET r == fetch_lottery_history(html) IN
         /\ fetched' = [fetched EXCEPT !.powerball = html]
         /\ IF r.raised
            THEN fpc' = "crashed" /\ UNCHANGED powerball_history
            ELSE fpc' = "fetch_megamillions" /\ powerball_history' = r.results
    /\ UNCHANGED <<now, megamillions_history, output, written, writing, pvars, file, avars>>

\* megamillions_history = fetch_lottery_history(MEGAMILLIONS_URL)
FetchMegaMillions ==
    /\ fpc = "fetch_megamillions"
    /\ \E html \in FetchResults :
         LET r == fetch_lottery_history(html) IN
         /\ fetched' = [fetched EXCEPT !.megaMillions = html]
         /\ IF r.raised
            THEN fpc' = "crashed" /\ UNCHANGED megamillions_history
            ELSE fpc' = "build" /\ megamillions_history' = r.results
    /\ UNCHANGED <<now, powerball_history, output, written, writing, pvars, file, avars>>

\* output = {"timestamp": now_iso, "powerball": ..., "megaMillions": ...}
BuildOutput ==
    /\ fpc = "build"
    /\ output' = Snapshot(TimestampAt(now), powerball_history, megamillions_history)
    /\ fpc' = "open"
    /\ UNCHANGED <<now, fetched, powerball_history, megamillions_history, written,
                   writing, pvars, file, avars>>

\* The file opened without truncation: open("history.json", "a")
OpenFileAppend ==
    /\ fpc = "open"
    /\ writing' = TRUE
    /\ fpc' = "dump"
    /\ UNCHANGED <<now, fetched, powerball_history, megamillions_history, output,
                   written, pvars, file, avars>>

\* open("history.json", "w"): the file is truncated
OpenFile ==
    /\ fpc = "open"
    /\ file' = <<>>
    /\ writing' = TRUE
    /\ fpc' = "dump"
    /\ UNCHANGED <<now, fetched, powerball_history, megamillions_history, output,
                   written, pvars, avars>>

\* json.dump: the next chunk reaches the file
DumpChunk ==
    /\ fpc = "dump"
    /\ Len(file) < Len(json_dump(output)) - 1
    /\ file' = Append(file, json_dump(output)[Len(file) + 1])
    /\ UNCHANGED <<fvars, pvars, avars>>

\* leaving the `with` block flushes the last chunk and closes the file
CloseFile ==
    /\ fpc = "dump"
    /\ Len(file) = Len(json_dump(output)) - 1
    /\ file' = json_dump(output)
    /\ fpc' = "done"
    /\ written' = output
    /\ writing' = FALSE
    /\ UNCHANGED <<now, fetched, powerball_history, megamillions_history, output,
                   pvars, avars>>

\* The process is killed; what was written so far stays on disk
Interrupt ==
    /\ fpc \in Running
    /\ fpc' = IF fpc = "dump" THEN "interrupted" ELSE "killed"
    /\ UNCHANGED <<now, fetched, powerball_history, megamillions_history, output,
                   written, writing, pvars, file, avars>>

Init ==
    /\ ParserIdle /\ FetcherIdle /\ ServerIdle
    /\ file = json_dump(InitialSnapshot)

Next ==
    \/ StartRun \/ FetchPowerball \/ FetchMegaMillions \/ BuildOutput
    \/ OpenFile \/ DumpChunk \/ CloseFile \/ Interrupt
    \/ GetLottery \/ ReadRoot

Spec == Init /\ [][Next]_vars

-----------------------------------------------------------------------------
(* Claims about parse_draw_rows, checked under ParseSpec *)

\* Bound of the calendar the date check ranges over
LastYear == 2026

\* The ISO strings of the calendar dates from the cutoff to the end of LastYear
DatesFromCutoff ==
    { isoformat([year |-> y, month |-> m, day |-> d]) :
        <<y, m, d>> \in { t \in (CUTOFF_DATE.year..LastYear) \X (1..12) \X (1..31) :
                            /\ t[3] <= DaysInMonth(t[1], t[2])
                            /\ ~DateLess([year |-> t[1], month |-> t[2], day |-> t[3]],
                                         CUTOFF_DATE) } }

IsDrawRecord(r) ==
    /\ r.date \in DatesFromCutoff
    /\ r.numbers # <<>>
    /\ \A k \in 1..Len(r.numbers) : r.numbers[k] \in Nat
    /\ r.jackpot \in Nat

\* C4: every record parse_draw_rows holds in `results`, at any point of the
\* parse, has a date on or after 2025-01-01, a non-empty list of numbers and
\* a non-negative integer jackpot.
Thm_C4 == \A k \in 1..Len(results) : IsDrawRecord(results[k])

LabelDec31 == <<Word("Tuesday"), Word("December"), Ordinal(31, "st"), Number(2024)>>

\* A page with a 2024 row whose other cells are valid, and a valid 2025 row:
\* the parse returned the 2025 record alone.
Wit_C4 ==
    /\ ppc = "returned"
    /\ page = <<Row(<<LabelDec31>>, ValidBalls, ValidStrong),
                Row(<<LabelMay30>>, ValidBalls, ValidStrong)>>
    /\ results = <<[date |-> "2025-05-30", numbers |-> <<12, 7>>, jackpot |-> 1000]>>

\* The numeric balls of a numbers cell, in document order
RECURSIVE BallValues(_)
BallValues(spans) ==
    IF spans = <<>> THEN <<>>
    ELSE LET t == strip(Head(spans).text) IN
         (IF "resultBall" \in Head(spans).class /\ int(t).ok
          THEN <<int(t).value>> ELSE <<>>)
         \o BallValues(Tail(spans))

\* The records of the rows that pass all three extractions, in page order
RECURSIVE Survivors(_)
Survivors(rows) ==
    IF rows = <<>> THEN <<>>
    ELSE (IF RowOutcome(Head(rows)).kind = "append"
          THEN <<[RowOutcome(Head(rows)).record EXCEPT
                    !.numbers = BallValues(Head(rows).tds[2].spans)]>>
          ELSE <<>>)
         \o Survivors(Tail(rows))

\* C9: while parse_draw_rows runs and when it returns, `results` is exactly
\* the sequence of the records of the surviving rows read so far, in page
\* order, duplicates kept, each with its balls in document order.
Thm_C9 ==
    ppc \in {"loop", "returned"} => results = Survivors(SubSeq(page, 1, cursor))

\* Two surviving rows with the same date and different balls: both records
\* are returned, in page order.
Wit_C9 ==
    /\ ppc = "returned"
    /\ Len(results) = 2
    /\ results[1].date = results[2].date
    /\ results[1].numbers = <<7, 3>>
    /\ results[2].numbers = <<12, 7>>

Anomalous(tr) == RowOutcome(tr).kind # "append"

\* C5 as claimed: the parse never ends in an exception, and what it returns
\* is what it returns for the page without its anomalous rows.
Claim_C5 ==
    /\ ppc # "raised"
    /\ ppc = "returned" =>
         results = parse_draw_rows(SelectSeq(page, LAMBDA tr : ~Anomalous(tr))).results

-----------------------------------------------------------------------------
(* Claims about get_lottery, checked under ApiSpec *)

Lottery == request.path = "/lottery"

\* The snapshot on disk, when the file holds one
OnDisk == json_load(file)

NonEmptyGame == request.game # None /\ request.game[1] # <<>>
NonEmptyDate == request.date # None /\ request.date[1] # ""

GameKeys == {K_timestamp, K_powerball, K_megaMillions}

\* C1 as claimed: with a non-empty game and no date, the response is the 404
\* naming the game exactly when the game value is no key of the snapshot, and
\* otherwise the success carrying the value stored under it.
Claim_C1 ==
    (Lottery /\ OnDisk.ok /\ NonEmptyGame /\ request.date = None) =>
        LET g == request.game[1] IN
        /\ (response = NotFound(GameNotFound(g))) <=> (g \notin DOMAIN OnDisk.value)
        /\ g \in DOMAIN OnDisk.value => response = Ok(Value(OnDisk.value[g]))

\* C1, amended: the key looked up is the game value with leading and trailing
\* whitespace stripped; the 404 message carries the game value as requested.
Thm_C1 ==
    (Lottery /\ OnDisk.ok /\ NonEmptyGame /\ request.date = None) =>
        LET g == request.game[1]
            key == strip(g)
        IN
        /\ (response = NotFound(GameNotFound(g))) <=> (key \notin DOMAIN OnDisk.value)
        /\ key \in DOMAIN OnDisk.value => response = Ok(Value(OnDisk.value[key]))

\* game=" powerball " on a snapshot with powerball: [] answers [], a success.
Wit_C1 ==
    /\ Lottery /\ OnDisk.ok
    /\ request.game = <<Padded(K_powerball)>> /\ request.date = None
    /\ OnDisk.value[K_powerball] = JList(<<>>)
    /\ response = Ok(Value(JList(<<>>)))

\* The Draw entries a stored value holds: a string holds none
EntriesOf(v) == IF v.type = "list" THEN v.items ELSE <<>>

RECURSIVE Matching(_, _)
Matching(entries, d) ==
    IF entries = <<>> THEN <<>>
    ELSE (IF Head(entries).date = d THEN <<Head(entries)>> ELSE <<>>)
         \o Matching(Tail(entries), d)

\* C2 as claimed: with a game key of the snapshot and a non-empty date, a
\* success carries exactly the entries whose date equals the date, in
\* snapshot order, and the response is the 404 naming game and date exactly
\* when no entry matches.
Claim_C2 ==
    (Lottery /\ OnDisk.ok /\ NonEmptyGame /\ NonEmptyDate
       /\ strip(request.game[1]) \in DOMAIN OnDisk.value) =>
        LET key == strip(request.game[1])
            d   == request.date[1]
            m   == Matching(EntriesOf(OnDisk.value[key]), d)
        IN
        /\ response.status = 200 => response = Ok(Value(JList(m)))
        /\ (response = NotFound(NoDrawsFound(key, d))) <=> (m = <<>>)

\* C3 as claimed: on a snapshot of the documented shape, a request with a
\* non-empty game gets an array as a success, or a 404, and nothing else.
Claim_C3 ==
    (Lottery /\ OnDisk.ok /\ DOMAIN OnDisk.value = GameKeys /\ NonEmptyGame) =>
        \/ /\ response.status = 200
           /\ response.body.kind = "value"
           /\ response.body.value.type = "list"
        \/ response.status = 404

\* C10: a missing or empty game returns the whole snapshot whatever the date;
\* an empty date with a game key of the snapshot returns the whole value
\* stored under the key.
Thm_C10 ==
    (Lottery /\ OnDisk.ok) =>
        /\ ~NonEmptyGame => response = Ok(WholeHistory(OnDisk.value))
        /\ (NonEmptyGame /\ request.date = <<"">>
              /\ strip(request.game[1]) \in DOMAIN OnDisk.value) =>
               response = Ok(Value(OnDisk.value[strip(request.game[1])]))

\* game="" with a date no draw has: the whole snapshot, not a 404.
Wit_C10 ==
    /\ Lottery /\ OnDisk.ok
    /\ request.game = << <<>> >> /\ request.date = <<"2099-01-01">>
    /\ response = Ok(WholeHistory(OnDisk.value))

-----------------------------------------------------------------------------
(* Claims about the Fetcher and the file, checked under Spec *)

ListOf(html) == IF html = None THEN <<>> ELSE parse_draw_rows(html[1]).results

\* C6 as claimed: no run ends before the write; after the fetches each list
\* is the empty list for a failed fetch and the parse of its own page
\* otherwise; a finished run left one snapshot with the three keys on disk.
Claim_C6 ==
    /\ fpc # "crashed"
    /\ fpc \in {"build", "open", "dump", "done"} =>
         /\ powerball_history = ListOf(fetched.powerball)
         /\ megamillions_history = ListOf(fetched.megaMillions)
    /\ fpc = "done" =>
         /\ file = json_dump(output)
         /\ json_load(file).ok
         /\ DOMAIN json_load(file).value = GameKeys

\* C7: no request changes history.json, and a /lottery request handled while
\* no write is open is answered from the output of the last run that closed
\* its write.
Thm_C7 ==
    [][ /\ (GetLottery \/ ReadRoot) => file' = file
        /\ (GetLottery /\ ~writing) =>
              response' = get_lottery([ok |-> TRUE, value |-> written],
                                      request'.game, request'.date)
      ]_vars

\* After the first run closed its write, /lottery returned that run's snapshot.
Wit_C7 ==
    /\ fpc = "done" /\ now = 1
    /\ written # InitialSnapshot
    /\ request = [path |-> "/lottery", game |-> None, date |-> None]
    /\ response = Ok(WholeHistory(written))

\* C8: from the open to the close of the write, and for good if the run is
\* interrupted in between, history.json does not load and is neither the
\* previous complete snapshot nor the new one.
Thm_C8 ==
    writing =>
        /\ ~json_load(file).ok
        /\ file # json_dump(written)
        /\ file # json_dump(output)

\* The run was interrupted in mid-write and a request read the truncated file.
Wit_C8 ==
    /\ fpc = "interrupted" /\ writing
    /\ Len(file) < Len(json_dump(output))
    /\ request.path = "/lottery"
    /\ response = ServerError("JSONDecodeError")

====
